---- MODULE Spec2Model ----
(***************************************************************************)
(* A model of whatsapp-mcp-server/whatsapp.py: the read operations over    *)
(* the SQLite archive (tables chats and messages) and the outbound         *)
(* send_message call.                                                      *)
(*                                                                         *)
(* The archive is written by another process; within a behaviour it is     *)
(* fixed, chosen by Init from a bounded family.  Every operation is a      *)
(* frame on a call stack that goes through connect, the try body and the   *)
(* finally block.  What SQL leaves undefined (the order of rows with equal *)
(* ORDER BY keys, the order of rows of a query without ORDER BY) is a      *)
(* choice the store makes anew for every query.                            *)
(*                                                                         *)
(* Timestamps are points in time 1..MaxTime: the stored ISO-8601 strings   *)
(* are taken to be in one format and time zone, where the store's          *)
(* comparison of the strings is the chronological one.                     *)
(***************************************************************************)
EXTENDS Integers, Sequences, FiniteSets, TLC

VARIABLES
    messages,   \* table messages: a set of rows, (id, chat_jid) the primary key
    chats,      \* table chats: a set of rows, jid the primary key
    stack,      \* the call stack: frames of the operations in progress
    openConns,  \* sqlite3 connections opened and not yet closed
    posts,      \* HTTP POSTs issued since the last call of send_message began
    ret,        \* how the last top-level call ended, until the caller takes it
    listing     \* the pages a caller paging through list_messages has taken so far

vars == <<messages, chats, stack, openConns, posts, ret, listing>>

----------------------------------------------------------------------------
(* Bounds *)

MaxTime == 3    \* timestamps are 1..MaxTime
MaxCount == 2   \* limit, before and after are drawn from -1..MaxCount
MaxPage == 1    \* page is drawn from -1..MaxPage

Times == 1..MaxTime
Counts == -1..MaxCount
Pages == -1..MaxPage

----------------------------------------------------------------------------
(* Optional values: None is Python's None and SQL's NULL *)

None == {}
Some(x) == {x}
The(o) == CHOOSE x \in o : TRUE

\* Python truthiness of an Optional[str] argument: None and "" are falsy
Truthy(o) == o # None /\ o # Some("")

----------------------------------------------------------------------------
(* Text: the characters of the strings of the model, for LIKE and LOWER *)

DirectJid == "1@s.whatsapp.net"
GroupJid == "2@g.us"

Chars ==
    (DirectJid :> <<"1","@","s",".","w","h","a","t","s","a","p","p",".","n","e","t">>)
    @@ (GroupJid :> <<"2","@","g",".","u","s">>)
    @@ ("Al" :> <<"A","l">>) @@ ("al" :> <<"a","l">>)
    @@ ("Hi" :> <<"H","i">>) @@ ("ho" :> <<"h","o">>)
    @@ ("hi!" :> <<"h","i","!">>) @@ ("Yo" :> <<"Y","o">>)
    @@ ("hi" :> <<"h","i">>) @@ ("1" :> <<"1">>) @@ ("2" :> <<"2">>)
    @@ ("9" :> <<"9">>) @@ ("" :> <<>>) @@ ("%@g.us" :> <<"%","@","g",".","u","s">>)

\* SQL LOWER() on one character (ASCII letters of the model)
LowerChar(c) ==
    CASE c = "A" -> "a" [] c = "H" -> "h" [] c = "Y" -> "y" [] OTHER -> c

Lower(t) == [i \in 1..Len(t) |-> LowerChar(t[i])]

\* SQLite's LIKE: % matches any run of characters, _ any one character, and
\* ASCII letters match without regard to case
RECURSIVE Like(_, _)
Like(p, t) ==
    IF p = <<>> THEN t = <<>>
    ELSE IF Head(p) = "%"
         THEN \E k \in 0..Len(t) : Like(Tail(p), SubSeq(t, k + 1, Len(t)))
         ELSE /\ t # <<>>
              /\ Head(p) = "_" \/ LowerChar(Head(p)) = LowerChar(Head(t))
              /\ Like(Tail(p), Tail(t))

\* column LIKE '%' + q + '%', the f"%{query}%" patterns
Contains(q, s) == Like(<<"%">> \o Chars[q] \o <<"%">>, Chars[s])

----------------------------------------------------------------------------
(* The archive *)

MsgIds == {"m1", "m2", "m3"}
Jids == {DirectJid, GroupJid}

\* The message keys the archive may hold: three messages of the direct chat
\* and one of the group chat whose id also occurs in the direct chat
Keys == {<<"m1", DirectJid>>, <<"m2", DirectJid>>, <<"m3", DirectJid>>, <<"m1", GroupJid>>}

SenderOf(k) == IF k = <<"m2", DirectJid>> THEN "9" ELSE "1"
ContentOf(k) ==
    CASE k = <<"m1", DirectJid>> -> "Hi"
      [] k = <<"m2", DirectJid>> -> "ho"
      [] k = <<"m3", DirectJid>> -> "hi!"
      [] OTHER -> "Yo"

\* a row of table messages
MessageRow(k, ts) ==
    [id |-> k[1], chat_jid |-> k[2], sender |-> SenderOf(k), content |-> ContentOf(k),
     timestamp |-> ts, is_from_me |-> (SenderOf(k) = "9")]

\* a row of table chats
ChatRow(jid, lmt) ==
    [jid |-> jid, name |-> IF jid = DirectJid THEN Some("Al") ELSE None,
     last_message_time |-> lmt]

\* the message tables: every key is absent (0) or stored with a timestamp
MessageTables ==
    {{MessageRow(k, f[k]) : k \in {x \in Keys : f[x] # 0}} : f \in [Keys -> {0} \cup Times]}

\* the newest timestamp of a conversation's messages, NULL without messages
NewestTime(msgs, jid) ==
    LET ts == {m.timestamp : m \in {x \in msgs : x.chat_jid = jid}}
    IN  IF ts = {} THEN None ELSE Some(CHOOSE t \in ts : \A u \in ts : u <= t)

\* the chat tables: both conversations exist, each with any last_message_time
ChatTables ==
    {{ChatRow(j, f[j]) : j \in Jids} : f \in [Jids -> {None} \cup {Some(t) : t \in Times}]}

\* the chat table whose last_message_time fields agree with the messages
SyncedChats(msgs) == {ChatRow(j, NewestTime(msgs, j)) : j \in Jids}

----------------------------------------------------------------------------
(* The store: joins, ORDER BY, LIMIT and OFFSET as SQLite evaluates them *)

Min(a, b) == IF a <= b THEN a ELSE b

RECURSIVE PermsOf(_)
PermsOf(S) ==
    IF S = {} THEN {<<>>}
    ELSE UNION {{<<x>> \o p : p \in PermsOf(S \ {x})} : x \in S}

\* the rows of a query without ORDER BY come in an undefined order
Unordered(S) == PermsOf(S)

\* LIMIT limit OFFSET offset: a negative LIMIT is no limit, a negative OFFSET is 0
LimitOffset(s, limit, offset) ==
    LET off == IF offset < 0 THEN 0 ELSE offset
        rest == SubSeq(s, off + 1, Len(s))
    IN  IF limit < 0 THEN rest ELSE SubSeq(rest, 1, Min(limit, Len(rest)))

\* messages JOIN chats ON messages.chat_jid = chats.jid
MessagesJoinChats ==
    {r \in [m : messages, c : chats] : r.m.chat_jid = r.c.jid}

TimestampDesc(r, s) == r.m.timestamp >= s.m.timestamp
TimestampAsc(r, s) == r.m.timestamp <= s.m.timestamp

\* The orders in which the store may return the rows S under ORDER BY
\* messages.timestamp DESC: rows with equal timestamps come in an undefined order
OrderByTimestampDesc(S) ==
    {p \in PermsOf(S) : \A i, j \in 1..Len(p) : i < j => TimestampDesc(p[i], p[j])}

\* ORDER BY messages.timestamp ASC, rows with equal timestamps in an undefined order
OrderByTimestampAsc(S) ==
    {p \in PermsOf(S) : \A i, j \in 1..Len(p) : i < j => TimestampAsc(p[i], p[j])}

\* the Message built from a row of the seven selected columns
Message(r) ==
    [timestamp |-> r.m.timestamp, sender |-> r.m.sender, chat_name |-> r.c.name,
     content |-> r.m.content, is_from_me |-> r.m.is_from_me, chat_jid |-> r.c.jid,
     id |-> r.m.id]

Messages(rows) == [i \in 1..Len(rows) |-> Message(rows[i])]

----------------------------------------------------------------------------
(* How a call ends *)

Return(v) == [kind |-> "return", val |-> v]
Raise(e) == [kind |-> "raise", val |-> e]
NoOutcome == [kind |-> "none", val |-> "none"]

----------------------------------------------------------------------------
(* get_message_context *)

\* SELECT ... WHERE messages.id = ?: the rows fetchone() may return
TargetRows(message_id) == {r \in MessagesJoinChats : r.m.id = message_id}

\* BeforeRows with the boundary not strict: timestamp <= ? for timestamp < ?
BeforeRowsNotStrict(t, before) ==
    {LimitOffset(p, before, 0) :
        p \in OrderByTimestampDesc({r \in MessagesJoinChats :
                          r.m.chat_jid = t.m.chat_jid /\ r.m.timestamp <= t.m.timestamp})}

\* the fetchall() of the "messages before" query, for the target row t
BeforeRows(t, before) ==
    {LimitOffset(p, before, 0) :
        p \in OrderByTimestampDesc({r \in MessagesJoinChats :
                          r.m.chat_jid = t.m.chat_jid /\ r.m.timestamp < t.m.timestamp})}

\* the fetchall() of the "messages after" query, for the target row t
AfterRows(t, after) ==
    {LimitOffset(p, after, 0) :
        p \in OrderByTimestampAsc({r \in MessagesJoinChats :
                          r.m.chat_jid = t.m.chat_jid /\ r.m.timestamp > t.m.timestamp})}

\* the MessageContext objects the try body may return when every query succeeds
Contexts(message_id, before, after) ==
    UNION {{[message |-> Message(t), before |-> Messages(b), after |-> Messages(a)] :
               b \in BeforeRows(t, before), a \in AfterRows(t, after)} :
           t \in TargetRows(message_id)}

\* GetMessageContextBody without the not-found check: an id that resolves to
\* nothing yields a context around an empty message
GetMessageContextBodyQuiet(message_id, before, after) ==
    IF TargetRows(message_id) = {}
    THEN {Return([message |-> None, before |-> <<>>, after |-> <<>>])}
    ELSE {Return(c) : c \in Contexts(message_id, before, after)}

\* the ways the try body of get_message_context may end when no query fails
GetMessageContextBody(message_id, before, after) ==
    IF TargetRows(message_id) = {}
    THEN {Raise("ValueError")}
    ELSE {Return(c) : c \in Contexts(message_id, before, after)}

----------------------------------------------------------------------------
(* Frames: an operation in progress *)

\* what the except sqlite3.Error handler of an operation does
OnStoreError(op) ==
    CASE op = "get_message_context" -> Raise("sqlite3.Error")
      [] op \in {"list_messages", "list_chats", "search_contacts", "get_contact_chats"} ->
            Return(<<>>)
      [] OTHER -> Return(None)

\* the frame once its except sqlite3.Error handler has run
Handled(f) == [f EXCEPT !.pc = "finally", !.out = OnStoreError(f.op)]

\* The frame once the store has failed in it (connect raised, or a query did):
\* failed records that, and the handler runs
Failed(f) == Handled([f EXCEPT !.failed = TRUE])

\* the frame once its try body has ended with outcome o
Ended(f, o) == [f EXCEPT !.pc = "finally", !.out = o]

\* The frame after conn = sqlite3.connect(...): with ok the connection is open
\* and the try body runs next; without, connect raised, conn is not among the
\* locals and the handler has run
Frame(op, args, ok) ==
    LET f == [op |-> op, args |-> args, conn |-> ok, pc |-> "try", failed |-> FALSE,
              out |-> NoOutcome, result |-> <<>>, windows |-> <<>>]
    IN  IF ok THEN f ELSE Failed(f)

Top == stack[Len(stack)]
Running(op, pc) == stack # <<>> /\ Top.op = op /\ Top.pc = pc
SetTop(f) == [stack EXCEPT ![Len(stack)] = f]
Opened(ok) == IF ok THEN 1 ELSE 0

Idle == [op |-> "none", args |-> <<>>, kind |-> "none", val |-> "none", failed |-> FALSE,
         result |-> <<>>, windows |-> <<>>]

\* a top-level call: connect, which opens a connection or raises
Call(op, args) ==
    /\ stack = <<>>
    /\ ret.op = "none"
    /\ \E ok \in BOOLEAN :
          /\ stack' = <<Frame(op, args, ok)>>
          /\ openConns' = openConns + Opened(ok)
    /\ UNCHANGED <<messages, chats, posts, ret, listing>>

\* The try body of a frame ends with one of the outcomes, or a query of it
\* fails and the except handler runs
EndTry(outcomes) ==
    /\ \E fail \in BOOLEAN, o \in outcomes :
          stack' = SetTop(IF fail THEN Failed(Top) ELSE Ended(Top, o))
    /\ UNCHANGED <<messages, chats, openConns, posts, ret, listing>>

\* Closed with the close at the end of the try body and not in a finally block:
\* a call that raises leaves its connection open
ClosedUnlessRaised(f) == IF f.conn /\ f.out.kind # "raise" THEN 1 ELSE 0

\* finally: if 'conn' in locals(): conn.close()
Closed(f) == IF f.conn THEN 1 ELSE 0

\* what the caller of a top-level call gets
Outcome(f) ==
    [op |-> f.op, args |-> f.args, kind |-> f.out.kind, val |-> f.out.val,
     failed |-> f.failed, result |-> f.result, windows |-> f.windows]

\* the finally block of a top-level call, and its return or raise to the caller
Finally ==
    /\ Len(stack) = 1
    /\ Top.pc = "finally"
    /\ openConns' = openConns - Closed(Top)
    /\ stack' = <<>>
    /\ ret' = Outcome(Top)
    /\ UNCHANGED <<messages, chats, posts, listing>>

\* the caller has taken the outcome and may call again
Resume ==
    /\ stack = <<>>
    /\ ret.op # "none"
    /\ ret' = Idle
    /\ UNCHANGED <<messages, chats, stack, openConns, posts, listing>>

----------------------------------------------------------------------------
(* get_message_context, called directly *)

\* the arguments of get_message_context, (before, after) among ns; m0 is the
\* id of no message
ContextArgs(ns) ==
    {[message_id |-> i, before |-> n[1], after |-> n[2]] : i \in MsgIds \cup {"m0"}, n \in ns}

\* a direct call with any counts
CallGetMessageContext ==
    \E a \in ContextArgs(Counts \X Counts) : Call("get_message_context", a)

\* a direct call with one before-entry and one after-entry asked for
CallGetMessageContextOfOne ==
    \E a \in ContextArgs({<<1, 1>>}) : Call("get_message_context", a)

\* the try body, of a direct call and of a call made by list_messages
TryGetMessageContext ==
    /\ Running("get_message_context", "try")
    /\ EndTry(GetMessageContextBody(Top.args.message_id, Top.args.before, Top.args.after))

----------------------------------------------------------------------------
(* list_messages *)

\* the WHERE clauses list_messages adds for its arguments
Matches(r, a) ==
    /\ a.date_range # None =>
          /\ The(a.date_range)[1] <= r.m.timestamp
          /\ r.m.timestamp <= The(a.date_range)[2]
    /\ Truthy(a.sender_phone_number) => r.m.sender = The(a.sender_phone_number)
    /\ Truthy(a.chat_jid) => r.m.chat_jid = The(a.chat_jid)
    /\ Truthy(a.query) =>
          Like(<<"%">> \o Lower(Chars[The(a.query)]) \o <<"%">>, Lower(Chars[r.m.content]))

\* the local result: the Messages of the fetchall() of the paginated query
ListMessagesResults(a) ==
    {Messages(LimitOffset(p, a.limit, a.page * a.limit)) :
        p \in OrderByTimestampDesc({r \in MessagesJoinChats : Matches(r, a)})}

\* the query of list_messages and what follows it up to the context loop
TryListMessages ==
    /\ Running("list_messages", "try")
    /\ \E fail \in BOOLEAN, res \in ListMessagesResults(Top.args) :
          stack' = SetTop(IF fail THEN Failed(Top)
                          ELSE IF Top.args.include_context /\ res # <<>>
                               THEN [Top EXCEPT !.pc = "context", !.result = res]
                               ELSE Ended([Top EXCEPT !.result = res], Return(res)))
    /\ UNCHANGED <<messages, chats, openConns, posts, ret, listing>>

\* for msg in result: context = get_message_context(msg.id, ...): the call
CallContext ==
    /\ Running("list_messages", "context")
    /\ LET msg == Top.result[Len(Top.windows) + 1]
           a == [message_id |-> msg.id, before |-> Top.args.context_before,
                 after |-> Top.args.context_after]
       IN  \E ok \in BOOLEAN :
              /\ stack' = Append(stack, Frame("get_message_context", a, ok))
              /\ openConns' = openConns + Opened(ok)
    /\ UNCHANGED <<messages, chats, posts, ret, listing>>

\* messages_with_context: before, message, after of every context in turn
RECURSIVE Flatten(_)
Flatten(ws) ==
    IF ws = <<>> THEN <<>>
    ELSE Head(ws).before \o <<Head(ws).message>> \o Head(ws).after \o Flatten(Tail(ws))

\* Continued without the handler of list_messages around the loop: the error
\* of the call it made propagates
ContinuedUncaught(f, n) ==
    LET g == [f EXCEPT !.failed = f.failed \/ n.failed]
    IN  IF n.out.kind = "return"
        THEN LET ws == Append(g.windows, n.out.val)
             IN  IF Len(ws) = Len(g.result)
                 THEN Ended([g EXCEPT !.windows = ws], Return(Flatten(ws)))
                 ELSE [g EXCEPT !.windows = ws]
        ELSE Ended(g, n.out)

\* The frame f of list_messages once the get_message_context it called, frame
\* n, has ended: its context is added and the loop goes on or returns; its
\* sqlite3.Error is caught by the handler; any other error propagates
Continued(f, n) ==
    LET g == [f EXCEPT !.failed = f.failed \/ n.failed]
    IN  IF n.out.kind = "return"
        THEN LET ws == Append(g.windows, n.out.val)
             IN  IF Len(ws) = Len(g.result)
                 THEN Ended([g EXCEPT !.windows = ws], Return(Flatten(ws)))
                 ELSE [g EXCEPT !.windows = ws]
        ELSE IF n.out.val = "sqlite3.Error"
             THEN Handled(g)
             ELSE Ended(g, n.out)

\* the finally block of a get_message_context called by list_messages, and its
\* return or raise into the loop
ContextEnds ==
    /\ Len(stack) = 2
    /\ Top.pc = "finally"
    /\ openConns' = openConns - Closed(Top)
    /\ stack' = <<Continued(stack[1], Top)>>
    /\ UNCHANGED <<messages, chats, posts, ret, listing>>

----------------------------------------------------------------------------
(* Chats: list_chats, get_chat, get_direct_chat_by_contact, get_contact_chats *)

\* chats LEFT JOIN messages ON chats.jid = messages.chat_jid
\*                        AND chats.last_message_time = messages.timestamp:
\* a chat with no such message gives one row with the message columns NULL
ChatsLeftJoinMessages ==
    UNION {LET ms == {m \in messages :
                         m.chat_jid = c.jid /\ c.last_message_time = Some(m.timestamp)}
           IN  IF ms = {} THEN {[c |-> c, m |-> None]}
               ELSE {[c |-> c, m |-> Some(m)] : m \in ms} : c \in chats}

\* the Chat built from a row of the six selected columns
Chat(r) ==
    [jid |-> r.c.jid, name |-> r.c.name, last_message_time |-> r.c.last_message_time,
     last_message |-> {m.content : m \in r.m},
     last_sender |-> {m.sender : m \in r.m},
     last_is_from_me |-> {m.is_from_me : m \in r.m}]

ChatList(rows) == [i \in 1..Len(rows) |-> Chat(rows[i])]

\* the byte order of the characters that names are made of (BINARY collation)
CharCode(ch) ==
    CASE ch = "." -> 46 [] ch = "1" -> 49 [] ch = "2" -> 50 [] ch = "@" -> 64
      [] ch = "A" -> 65 [] ch = "a" -> 97 [] ch = "e" -> 101 [] ch = "g" -> 103
      [] ch = "h" -> 104 [] ch = "l" -> 108 [] ch = "n" -> 110 [] ch = "p" -> 112
      [] ch = "s" -> 115 [] ch = "t" -> 116 [] ch = "u" -> 117 [] ch = "w" -> 119

RECURSIVE TextLE(_, _)
TextLE(s, t) ==
    IF s = <<>> THEN TRUE
    ELSE IF t = <<>> THEN FALSE
    ELSE IF Head(s) = Head(t) THEN TextLE(Tail(s), Tail(t))
    ELSE CharCode(Head(s)) < CharCode(Head(t))

\* ORDER BY chats.last_message_time DESC: NULL sorts below every value
LastActiveDesc(r, s) ==
    \/ s.c.last_message_time = None
    \/ /\ r.c.last_message_time # None
       /\ The(r.c.last_message_time) >= The(s.c.last_message_time)

\* the orders the store may return under ORDER BY chats.last_message_time DESC
OrderByLastActiveDesc(S) ==
    {p \in PermsOf(S) : \A i, j \in 1..Len(p) : i < j => LastActiveDesc(p[i], p[j])}

\* ORDER BY chats.name: NULL sorts first
NameAsc(r, s) ==
    \/ r.c.name = None
    \/ /\ s.c.name # None
       /\ TextLE(Chars[The(r.c.name)], Chars[The(s.c.name)])

\* the orders the store may return under ORDER BY chats.name
OrderByNameAsc(S) ==
    {p \in PermsOf(S) : \A i, j \in 1..Len(p) : i < j => NameAsc(p[i], p[j])}

\* (LOWER(chats.name) LIKE LOWER(?) OR chats.jid LIKE ?) with f"%{query}%"
ChatMatches(c, q) ==
    \/ /\ c.name # None
       /\ Like(<<"%">> \o Lower(Chars[q]) \o <<"%">>, Lower(Chars[The(c.name)]))
    \/ Contains(q, c.jid)

\* jid NOT LIKE '%@g.us'
NotGroup(jid) == ~Like(Chars["%@g.us"], Chars[jid])

\* the result of list_chats when its query runs, include_last_message being on
ListChatsResults(a) ==
    LET rows == {r \in ChatsLeftJoinMessages :
                    Truthy(a.query) => ChatMatches(r.c, The(a.query))}
        orders == IF a.sort_by = "last_active" THEN OrderByLastActiveDesc(rows)
                  ELSE OrderByNameAsc(rows)
    IN  {ChatList(LimitOffset(p, a.limit, a.page * a.limit)) : p \in orders}

\* The try body of list_chats.  Without include_last_message the query selects
\* messages.content, messages.sender and messages.is_from_me from chats alone:
\* the store rejects it (no such column) and the handler runs
TryListChats ==
    /\ Running("list_chats", "try")
    /\ \E fail \in BOOLEAN, res \in ListChatsResults(Top.args) :
          stack' = SetTop(IF fail \/ ~Top.args.include_last_message THEN Failed(Top)
                          ELSE Ended(Top, Return(res)))
    /\ UNCHANGED <<messages, chats, openConns, posts, ret, listing>>

\* fetchone() of get_chat: None, or the Chat of any of the rows
GetChatResults(a) ==
    LET rows == {r \in ChatsLeftJoinMessages : r.c.jid = a.chat_jid}
    IN  IF rows = {} THEN {None} ELSE {Some(Chat(r)) : r \in rows}

\* the try body of get_chat; without include_last_message the store rejects
\* the query as in list_chats
TryGetChat ==
    /\ Running("get_chat", "try")
    /\ \E fail \in BOOLEAN, res \in GetChatResults(Top.args) :
          stack' = SetTop(IF fail \/ ~Top.args.include_last_message THEN Failed(Top)
                          ELSE Ended(Top, Return(res)))
    /\ UNCHANGED <<messages, chats, openConns, posts, ret, listing>>

\* fetchone() of get_direct_chat_by_contact: WHERE c.jid LIKE ? AND c.jid NOT
\* LIKE '%@g.us' LIMIT 1, no ORDER BY
GetDirectChatResults(a) ==
    LET rows == {r \in ChatsLeftJoinMessages :
                    Contains(a.sender_phone_number, r.c.jid) /\ NotGroup(r.c.jid)}
    IN  IF rows = {} THEN {None} ELSE {Some(Chat(r)) : r \in rows}

TryGetDirectChatByContact ==
    /\ Running("get_direct_chat_by_contact", "try")
    /\ EndTry({Return(c) : c \in GetDirectChatResults(Top.args)})

\* ORDER BY c.last_message_time DESC over the DISTINCT rows of get_contact_chats
ChatLastActiveDesc(x, y) ==
    \/ y.last_message_time = None
    \/ /\ x.last_message_time # None
       /\ The(x.last_message_time) >= The(y.last_message_time)

\* the orders the store may return under ORDER BY c.last_message_time DESC
OrderByChatLastActiveDesc(S) ==
    {p \in PermsOf(S) : \A i, j \in 1..Len(p) : i < j => ChatLastActiveDesc(p[i], p[j])}

\* The result of get_contact_chats: SELECT DISTINCT ... FROM chats c JOIN
\* messages m ON c.jid = m.chat_jid WHERE m.sender = ? OR c.jid = ?
GetContactChatsResults(a) ==
    LET rows == {r \in MessagesJoinChats : r.m.sender = a.jid \/ r.c.jid = a.jid}
        distinct == {Chat([c |-> r.c, m |-> Some(r.m)]) : r \in rows}
    IN  {LimitOffset(p, a.limit, a.page * a.limit) :
            p \in OrderByChatLastActiveDesc(distinct)}

TryGetContactChats ==
    /\ Running("get_contact_chats", "try")
    /\ EndTry({Return(cs) : cs \in GetContactChatsResults(Top.args)})

\* fetchone() of get_last_interaction: ORDER BY m.timestamp DESC LIMIT 1
GetLastInteractionResults(a) ==
    LET rows == {r \in MessagesJoinChats : r.m.sender = a.jid \/ r.c.jid = a.jid}
    IN  IF rows = {} THEN {None}
        ELSE {Some(Message(p[1])) : p \in OrderByTimestampDesc(rows)}

TryGetLastInteraction ==
    /\ Running("get_last_interaction", "try")
    /\ EndTry({Return(m) : m \in GetLastInteractionResults(Top.args)})

----------------------------------------------------------------------------
(* search_contacts *)

ContactLimit == 50

\* contact_data[0].split('@')[0]: the characters before the first @
RECURSIVE BeforeAt(_)
BeforeAt(t) ==
    IF t = <<>> \/ Head(t) = "@" THEN <<>> ELSE <<Head(t)>> \o BeforeAt(Tail(t))

Contact(c) == [phone_number |-> BeforeAt(Chars[c.jid]), name |-> c.name, jid |-> c.jid]

\* ORDER BY name, jid
NameJidAsc(c, d) ==
    \/ c.name = None /\ d.name # None
    \/ c.name # None /\ d.name # None /\ c.name # d.name
          /\ TextLE(Chars[The(c.name)], Chars[The(d.name)])
    \/ c.name = d.name /\ TextLE(Chars[c.jid], Chars[d.jid])

\* the orders the store may return under ORDER BY name, jid
OrderByNameJid(S) ==
    {p \in PermsOf(S) : \A i, j \in 1..Len(p) : i < j => NameJidAsc(p[i], p[j])}

SearchContactsResults(a) ==
    LET p == <<"%">> \o Lower(Chars[a.query]) \o <<"%">>
        rows == {c \in chats :
                    /\ \/ c.name # None /\ Like(p, Lower(Chars[The(c.name)]))
                       \/ Like(p, Lower(Chars[c.jid]))
                    /\ NotGroup(c.jid)}
    IN  {[i \in 1..Len(q) |-> Contact(q[i])] :
            q \in {LimitOffset(o, ContactLimit, 0) : o \in OrderByNameJid(rows)}}

TrySearchContacts ==
    /\ Running("search_contacts", "try")
    /\ EndTry({Return(cs) : cs \in SearchContactsResults(Top.args)})

----------------------------------------------------------------------------
(* send_message *)

\* What the gateway may do with the POST: the transport fails, or a response
\* comes back with a status and a body that is a JSON object (with or without
\* its success and message fields), some other JSON value, or no JSON at all
Statuses == {200, 404, 500}

Responses ==
    {[transport |-> "failed", status |-> 0, body |-> "none", success |-> "absent",
      message |-> "absent"]}
    \cup [transport : {"ok"}, status : Statuses, body : {"object"},
          success : {"absent", "true", "false"}, message : {"absent", "present"}]
    \cup [transport : {"ok"}, status : Statuses, body : {"array", "text"},
          success : {"absent"}, message : {"absent"}]

\* what send_message returns for the parsed JSON value of a 200 response
Parsed(r) ==
    IF r.body = "text" THEN <<FALSE, "Error parsing response">>
    ELSE IF r.body = "array" THEN <<FALSE, "Unexpected error">>
    ELSE <<r.success = "true",
           IF r.message = "present" THEN "message" ELSE "Unknown response">>

\* Interpret without the check of the status code
InterpretAnyStatus(r) ==
    IF r.transport = "failed" THEN <<FALSE, "Request error">> ELSE Parsed(r)

\* The (success, status_message) of send_message for the gateway's response:
\* RequestException, the status check, response.json() and its JSONDecodeError,
\* result.get on the parsed value, and the catch-all handler
Interpret(r) ==
    IF r.transport = "failed" THEN <<FALSE, "Request error">>
    ELSE IF r.status # 200 THEN <<FALSE, "Error: HTTP">>
    ELSE Parsed(r)

SendArgs == [recipient : {"", "1", GroupJid}, message : {"", "hi"}]

\* send_message opens no connection: the frame starts at its try body
CallSendMessage ==
    /\ stack = <<>>
    /\ ret.op = "none"
    /\ \E a \in SendArgs :
          stack' = <<[Frame("send_message", a, TRUE) EXCEPT !.conn = FALSE]>>
    /\ posts' = 0
    /\ UNCHANGED <<messages, chats, openConns, ret, listing>>

\* if not recipient: return False, "Recipient must be provided"
RejectRecipient ==
    /\ Running("send_message", "try")
    /\ Top.args.recipient = ""
    /\ stack' = SetTop(Ended(Top, Return(<<FALSE, "Recipient must be provided">>)))
    /\ UNCHANGED <<messages, chats, openConns, posts, ret, listing>>

\* response = requests.post(url, json=payload): the request goes out
Post ==
    /\ Running("send_message", "try")
    /\ Top.args.recipient # ""
    /\ posts' = posts + 1
    /\ stack' = SetTop([Top EXCEPT !.pc = "posted"])
    /\ UNCHANGED <<messages, chats, openConns, ret, listing>>

\* the gateway's answer, or the transport's failure, and the tuple returned
Respond ==
    /\ Running("send_message", "posted")
    /\ \E r \in Responses :
          stack' = SetTop(Ended([Top EXCEPT !.result = r], Return(Interpret(r))))
    /\ UNCHANGED <<messages, chats, openConns, posts, ret, listing>>

----------------------------------------------------------------------------
(* The calls and their arguments *)

Criteria ==
    [date_range : {None, Some(<<1, 2>>)}, sender_phone_number : {None, Some("1")},
     chat_jid : {None, Some(DirectJid)}, query : {None, Some("hi")}]

\* the arguments of list_messages: criteria cs, limits ls, pages ps, context
\* expansion among xs with context_before and context_after among ns
ListArgs(cs, ls, ps, xs, ns) ==
    {[date_range |-> c.date_range, sender_phone_number |-> c.sender_phone_number,
      chat_jid |-> c.chat_jid, query |-> c.query, limit |-> l, page |-> p,
      include_context |-> x, context_before |-> n[1], context_after |-> n[2]] :
        c \in cs, l \in ls, p \in ps, x \in xs, n \in ns}

NoCriteria == [date_range |-> None, sender_phone_number |-> None, chat_jid |-> None,
               query |-> None]

\* any limit and page, with and without context expansion, of every message
\* and of the messages of the group chat
CallListMessages ==
    \E a \in ListArgs({NoCriteria, [NoCriteria EXCEPT !.chat_jid = Some(GroupJid)]},
                      Counts, Pages, BOOLEAN, {<<1, 1>>}) :
        Call("list_messages", a)

\* a caller paging through a listing asks for page 0 of it
CallFirstPage ==
    /\ listing = <<>>
    /\ \E a \in ListArgs(Criteria, 1..MaxCount, {0}, {FALSE}, {<<1, 1>>}) :
          Call("list_messages", a)

\* and for the next page, with the criteria and the limit of page 0
CallNextPage ==
    /\ listing # <<>>
    /\ Len(listing) <= MaxPage
    /\ Call("list_messages", [listing[1].args EXCEPT !.page = Len(listing)])

\* the caller adds the page returned to the pages it has
Collect ==
    /\ stack = <<>>
    /\ ret.op # "none"
    /\ listing' = Append(listing, ret)
    /\ ret' = Idle
    /\ UNCHANGED <<messages, chats, stack, openConns, posts>>

\* a caller asks for the context of a message
CallContextFirst ==
    /\ listing = <<>>
    /\ \E a \in ContextArgs((0..MaxCount) \X (0..MaxCount)) : Call("get_message_context", a)

\* and asks again, with the same arguments
CallContextAgain ==
    /\ listing # <<>>
    /\ Len(listing) < 2
    /\ Call("get_message_context", listing[1].args)

ListChatsArgs(ps) ==
    [query : {None, Some("al")}, limit : Counts, page : ps,
     include_last_message : BOOLEAN, sort_by : {"last_active", "name"}]

CallListChats == \E a \in ListChatsArgs(Pages) : Call("list_chats", a)

CallListChatsFirstPage == \E a \in ListChatsArgs({0}) : Call("list_chats", a)

CallSearchContacts ==
    \E a \in [query : {"", "al", "2"}] : Call("search_contacts", a)

ContactJids == {"1", DirectJid, GroupJid}

ContactChatsArgs(ps) == [jid : ContactJids, limit : Counts, page : ps]

CallGetContactChats == \E a \in ContactChatsArgs(Pages) : Call("get_contact_chats", a)

CallGetContactChatsFirstPage ==
    \E a \in ContactChatsArgs({0}) : Call("get_contact_chats", a)

CallGetLastInteraction ==
    \E a \in [jid : ContactJids] : Call("get_last_interaction", a)

CallGetChat ==
    \E a \in [chat_jid : Jids \cup {"9"}, include_last_message : BOOLEAN] :
        Call("get_chat", a)

CallGetDirectChatByContact ==
    \E a \in [sender_phone_number : {"1", "2", "9"}] :
        Call("get_direct_chat_by_contact", a)

----------------------------------------------------------------------------
(* Specifications *)

Start ==
    /\ stack = <<>>
    /\ openConns = 0
    /\ posts = 0
    /\ ret = Idle
    /\ listing = <<>>

\* any message table, the chats' last_message_time in step with it
InitSynced ==
    /\ messages \in MessageTables
    /\ chats = SyncedChats(messages)
    /\ Start

\* the message tables whose messages carry different timestamps
InitDistinct ==
    /\ messages \in {t \in MessageTables :
                        \A m, n \in t : m.timestamp = n.timestamp => m = n}
    /\ chats = SyncedChats(messages)
    /\ Start

NextContext ==
    \/ CallGetMessageContext
    \/ TryGetMessageContext
    \/ Finally
    \/ Resume

\* get_message_context called directly
SpecContext == InitSynced /\ [][NextContext]_vars

Next ==
    \/ CallListMessages
    \/ TryListMessages
    \/ CallContext
    \/ ContextEnds
    \/ CallGetMessageContextOfOne
    \/ TryGetMessageContext
    \/ CallListChatsFirstPage
    \/ TryListChats
    \/ CallSearchContacts
    \/ TrySearchContacts
    \/ CallGetContactChatsFirstPage
    \/ TryGetContactChats
    \/ CallGetLastInteraction
    \/ TryGetLastInteraction
    \/ CallGetChat
    \/ TryGetChat
    \/ CallGetDirectChatByContact
    \/ TryGetDirectChatByContact
    \/ CallSendMessage
    \/ RejectRecipient
    \/ Post
    \/ Respond
    \/ Finally
    \/ Resume

\* every operation, called one after the other
Spec == InitDistinct /\ [][Next]_vars

NextPages ==
    \/ CallFirstPage
    \/ CallNextPage
    \/ TryListMessages
    \/ Finally
    \/ Collect

\* a caller paging through list_messages, context expansion off
SpecPages == InitSynced /\ [][NextPages]_vars

NextRepeat ==
    \/ CallContextFirst
    \/ CallContextAgain
    \/ TryGetMessageContext
    \/ Finally
    \/ Collect

\* get_message_context called twice with the same arguments
SpecRepeat == InitSynced /\ [][NextRepeat]_vars

\* any message table, any last_message_time of the direct chat, that of the
\* group chat in step with its messages
InitDrifted ==
    /\ messages \in MessageTables
    /\ chats \in {t \in ChatTables : ChatRow(GroupJid, NewestTime(messages, GroupJid)) \in t}
    /\ Start

NextChats ==
    \/ CallListChats
    \/ TryListChats
    \/ CallGetChat
    \/ TryGetChat
    \/ CallGetDirectChatByContact
    \/ TryGetDirectChatByContact
    \/ CallGetContactChats
    \/ TryGetContactChats
    \/ Finally
    \/ Resume

\* the operations that return Chats
SpecChats == InitDrifted /\ [][NextChats]_vars

----------------------------------------------------------------------------
(* Properties of get_message_context, under SpecContext *)

ContextCalled == ret.op = "get_message_context"
ContextReturned == ContextCalled /\ ret.kind = "return"

Ascending(ms) == \A i, j \in 1..Len(ms) : i < j => ms[i].timestamp <= ms[j].timestamp

\* C1: with before >= 0 and after >= 0 a returned context holds at most before
\* before-entries and at most after after-entries, all of the target's own
\* conversation, the before-entries strictly earlier than the target and the
\* after-entries strictly later: neither window holds the target or a message
\* with the target's timestamp
C1_WindowsBounded ==
    (ContextReturned /\ ret.args.before >= 0 /\ ret.args.after >= 0) =>
        LET c == ret.val
        IN  /\ Len(c.before) <= ret.args.before
            /\ Len(c.after) <= ret.args.after
            /\ \A i \in 1..Len(c.before) :
                  /\ c.before[i].chat_jid = c.message.chat_jid
                  /\ c.before[i].timestamp < c.message.timestamp
            /\ \A i \in 1..Len(c.after) :
                  /\ c.after[i].chat_jid = c.message.chat_jid
                  /\ c.after[i].timestamp > c.message.timestamp

\* a context with a before-entry is returned from an archive that holds
\* another message of the conversation at the target's timestamp and an
\* earlier message of the other conversation
C1_Witness ==
    /\ ContextReturned
    /\ ret.args.before >= 1 /\ ret.args.after >= 1
    /\ Len(ret.val.before) >= 1
    /\ \E m \in messages :
          /\ m.chat_jid = ret.val.message.chat_jid
          /\ m.timestamp = ret.val.message.timestamp
          /\ m.id # ret.val.message.id
    /\ \E m \in messages :
          /\ m.chat_jid # ret.val.message.chat_jid
          /\ m.timestamp < ret.val.message.timestamp

\* C2: the before sequence and the after sequence of a context returned for
\* before >= 0 and after >= 0 are both in ascending chronological order
C2_WindowsAscending ==
    (ContextReturned /\ ret.args.before >= 0 /\ ret.args.after >= 0)
        => Ascending(ret.val.before) /\ Ascending(ret.val.after)

\* C8: a direct get_message_context whose id resolves to no message raises the
\* not-found error, one whose store fails raises the store's error, and a
\* context is returned only around a message read from the archive
C8_FailsLoudly ==
    ContextCalled =>
        /\ ret.failed => ret.kind = "raise" /\ ret.val = "sqlite3.Error"
        /\ (TargetRows(ret.args.message_id) = {} /\ ~ret.failed) =>
              ret.kind = "raise" /\ ret.val = "ValueError"
        /\ ret.kind = "return" =>
              ret.val.message \in {Message(r) : r \in TargetRows(ret.args.message_id)}

\* the not-found error is raised for an id the archive, which holds messages,
\* does not hold
C8_Witness ==
    /\ ContextCalled
    /\ ret.kind = "raise"
    /\ ret.val = "ValueError"
    /\ messages # {}

----------------------------------------------------------------------------
(* Properties of a caller paging through list_messages, under SpecPages *)

KeysOf(ms) == {<<ms[i].id, ms[i].chat_jid>> : i \in 1..Len(ms)}

Descending(ms) == \A i, j \in 1..Len(ms) : i < j => ms[i].timestamp >= ms[j].timestamp

\* the rows that match the criteria of the arguments a
Matching(a) == {r \in MessagesJoinChats : Matches(r, a)}

\* C3: the pages 0, 1, ... of a listing, each read without a store error, hold
\* no message twice, neither on one page nor on two; once they are as many
\* as the matching messages need they hold every matching message; each page is
\* in descending order of timestamp and no message left out of page 0 is newer
\* than one on it
C3_PagesPartition ==
    (listing # <<>> /\ \A i \in 1..Len(listing) : ~listing[i].failed) =>
        LET a == listing[1].args
        IN  /\ \A i, j \in 1..Len(listing) :
                  i < j => KeysOf(listing[i].val) \cap KeysOf(listing[j].val) = {}
            /\ \A i \in 1..Len(listing) :
                  /\ Cardinality(KeysOf(listing[i].val)) = Len(listing[i].val)
                  /\ Descending(listing[i].val)
            /\ Len(listing) * a.limit >= Cardinality(Matching(a)) =>
                  UNION {KeysOf(listing[i].val) : i \in 1..Len(listing)}
                      = {<<r.m.id, r.m.chat_jid>> : r \in Matching(a)}
            /\ \A r \in Matching(a) :
                  <<r.m.id, r.m.chat_jid>> \notin KeysOf(listing[1].val) =>
                      \A i \in 1..Len(listing[1].val) :
                          r.m.timestamp <= listing[1].val[i].timestamp

----------------------------------------------------------------------------
(* Properties of the archive operations and of send_message, under Spec *)

Returned(op) == ret.op = op /\ ret.kind = "return"

\* the most entries a limit allows: none when it is below 1
AtMost(limit) == IF limit < 0 THEN 0 ELSE limit

\* C4: whatever limit and page are, list_messages selects at most limit target
\* messages before context expansion and list_chats returns at most limit
\* entries
C4_AtMostLimit ==
    /\ Returned("list_messages") => Len(ret.result) <= AtMost(ret.args.limit)
    /\ Returned("list_chats") => Len(ret.val) <= AtMost(ret.args.limit)

\* C5: list_messages with context expansion (here with a limit of 1 or more
\* and a page of 0 or more) returns, for the targets that pagination selected,
\* in their descending order, the windows one after the other, each window
\* around its target (the message of that id in that conversation) and with
\* before and after entries of the target's conversation
C5_WindowsAroundTargets ==
    (Returned("list_messages") /\ ret.args.include_context /\ ~ret.failed
        /\ ret.args.limit >= 1 /\ ret.args.page >= 0 /\ ret.result # <<>>) =>
        /\ Descending(ret.result)
        /\ Len(ret.windows) = Len(ret.result)
        /\ ret.val = Flatten(ret.windows)
        /\ \A i \in 1..Len(ret.windows) :
              LET w == ret.windows[i]
                  t == ret.result[i]
              IN  /\ w.message.id = t.id
                  /\ w.message.chat_jid = t.chat_jid
                  /\ \A k \in 1..Len(w.before) : w.before[k].chat_jid = t.chat_jid
                  /\ \A k \in 1..Len(w.after) : w.after[k].chat_jid = t.chat_jid

Listings == {"list_messages", "list_chats", "search_contacts", "get_contact_chats"}

\* C7: a listing operation in which the store failed, at connect, at a query
\* or inside a get_message_context it called, returns an empty list and raises
\* nothing
C7_ListingsSwallowStoreErrors ==
    (ret.op \in Listings /\ ret.failed) => (ret.kind = "return" /\ ret.val = <<>>)

\* list_messages returns the empty list after the store failed inside a
\* get_message_context it called, a first context having been assembled
C7_Witness ==
    /\ Returned("list_messages")
    /\ ret.failed
    /\ Len(ret.windows) >= 1
    /\ ret.val = <<>>

\* C9: when no operation is in progress no connection is open, however the
\* operations before ended
C9_ConnectionsReleased == stack = <<>> => openConns = 0

\* get_message_context has raised the not-found error, its connection opened
\* before, and no connection is open
C9_Witness ==
    /\ ret.op = "get_message_context"
    /\ ret.kind = "raise"
    /\ ret.val = "ValueError"
    /\ openConns = 0

\* C10: send_message issues at most one POST and none for an empty recipient;
\* it returns a pair whatever the gateway does, and the pair's success is false
\* when the recipient is empty, the status is not 200 or the transport failed
C10_SendReturnsOutcome ==
    /\ posts <= 1
    /\ ret.op = "send_message" =>
          /\ ret.kind = "return"
          /\ Len(ret.val) = 2
          /\ ret.val[1] \in BOOLEAN
          /\ IF ret.args.recipient = ""
             THEN posts = 0 /\ ret.val[1] = FALSE
             ELSE /\ posts = 1
                  /\ (ret.result.transport = "failed" \/ ret.result.status # 200) =>
                        ret.val[1] = FALSE

\* the gateway answers 500 with a JSON object whose success is true, and
\* send_message returns failure
C10_Witness ==
    /\ ret.op = "send_message"
    /\ ret.args.recipient # ""
    /\ ret.result.status = 500
    /\ ret.result.success = "true"
    /\ ret.val[1] = FALSE

----------------------------------------------------------------------------
(* Properties of the operations that return Chats, under SpecChats *)

\* last_message, last_sender and last_is_from_me of a Chat are absent, or are
\* those of a message of the conversation at its last_message_time
SnapshotOfLast(ch) ==
    \/ ch.last_message = None /\ ch.last_sender = None /\ ch.last_is_from_me = None
    \/ \E m \in messages :
          /\ m.chat_jid = ch.jid
          /\ ch.last_message_time = Some(m.timestamp)
          /\ ch.last_message = Some(m.content)
          /\ ch.last_sender = Some(m.sender)
          /\ ch.last_is_from_me = Some(m.is_from_me)

\* C6: over an archive whose last_message_time fields are those of the newest
\* messages, every Chat that list_chats, get_chat, get_direct_chat_by_contact
\* and get_contact_chats return (the two lists here with a limit of 1 or more
\* and a page of 0 or more) carries, if any, the last-message fields of a
\* message of its conversation whose timestamp is its last_message_time
C6_SnapshotAtLastMessageTime ==
    chats = SyncedChats(messages) =>
        /\ ((Returned("list_chats") \/ Returned("get_contact_chats"))
               /\ ret.args.limit >= 1 /\ ret.args.page >= 0) =>
              \A i \in 1..Len(ret.val) : SnapshotOfLast(ret.val[i])
        /\ (Returned("get_chat") \/ Returned("get_direct_chat_by_contact")) =>
              \A ch \in ret.val : SnapshotOfLast(ch)

\* C12: over an archive whose last_message_time fields are those of the newest
\* messages, the sequence list_chats returns for a limit of 1 or more and a page
\* of 0 or more holds no conversation identifier twice
C12_ChatsListedOnce ==
    (/\ Returned("list_chats")
     /\ ret.args.limit >= 1
     /\ ret.args.page >= 0
     /\ chats = SyncedChats(messages))
        => \A i, j \in 1..Len(ret.val) : ret.val[i].jid = ret.val[j].jid => i = j

----------------------------------------------------------------------------
(* Properties of a repeated get_message_context, under SpecRepeat *)

\* the conversations that hold a message with this id
ConversationsOf(message_id) == {m.chat_jid : m \in {x \in messages : x.id = message_id}}

\* C11: over an archive in which the id occurs in two or more conversations,
\* two get_message_context calls with the same arguments that both return a
\* context resolve to the same target message, of the same conversation
C11_SameTarget ==
    \A i, j \in 1..Len(listing) :
        (/\ listing[i].op = "get_message_context"
         /\ listing[j].op = "get_message_context"
         /\ listing[i].kind = "return"
         /\ listing[j].kind = "return"
         /\ listing[i].args = listing[j].args
         /\ Cardinality(ConversationsOf(listing[i].args.message_id)) >= 2)
            => listing[i].val.message = listing[j].val.message

====
